---- MODULE Spec2Model ----
(***************************************************************************)
(* GrowLock<T, A>: a fixed-capacity, append-only buffer.  Readers load the *)
(* atomic length and read the initialized prefix without locking; writers  *)
(* are serialized by a std::sync::Mutex<()> and append through GrowGuard.  *)
(*                                                                         *)
(* Threads interleave at the granularity of the shared-memory accesses of  *)
(* the code: a push is the slot write followed by the release store of the *)
(* length; a slice read is the acquire load of the length followed by the  *)
(* slot reads.  Happens-before is tracked per thread as the set of slot    *)
(* writes and length stores the thread is ordered after: a release store   *)
(* and an unlock publish the set, an acquire load and a lock join it.  A   *)
(* read of a slot whose write is outside the set is a data race and yields *)
(* any value; a load of the length returns any value not older than the    *)
(* newest store in the set.                                                *)
(*                                                                         *)
(* Spec is the shared container with two writer threads and a reader.      *)
(* SpecLive is its writers alone under fair scheduling, SpecContention the *)
(* loop of the write_contention test, and SpecLife one owner taking an     *)
(* element type and a capacity through the fallible constructor, its       *)
(* writes and the container's drop, with the allocator and the element     *)
(* destructors observed.  SpecNew is the two panicking constructors and    *)
(* the first lock of what they return, SpecParts the owner's conversions   *)
(* (into_parts_with_alloc, from_parts_in, From<Vec>, From<GrowLock>),      *)
(* SpecIndex a writer and a reader that indexes the slice, and SpecExtend  *)
(* the writers with every extend call recorded in xcall.                   *)
(***************************************************************************)
EXTENDS Integers, Sequences, FiniteSets, TLC

\* ------------------------------------------------------------------ bounds
MaxReq == 3        \* largest capacity requested from the constructor
MaxExt == 2        \* longest sequence handed to extend
MaxPush == 3       \* element values handed to push / try_push / extend in one run
MaxCycles == 2     \* iterations of each writer's loop in write_contention
MaxReject == 2     \* values destroyed unstored before the owner stops pushing

\* ------------------------------------------------ platform (scaled to 4 bits)
UsizeMax == 15                   \* usize::MAX
I_MAX == UsizeMax \div 2         \* isize::MAX as usize

Writers == {"w1", "w2"}
Readers == {"r1"}
Threads == Writers \cup Readers

\* The code never inspects an element: each value handed in is a fresh one,
\* numbered in call order (a zero-sized type has a single value).
Values == 1..MaxPush
Uninit == 0                      \* a slot that was never written

VARIABLES
  zst,        \* T::IS_ZST
  requested,  \* the capacity handed to the constructor
  cap,        \* buf.cap: the stored Cap
  len,        \* GrowLock::len (AtomicUsize), latest value in modification order
  buf,        \* the slots of the allocation
  locked,     \* GrowLock::mutex is held
  poisoned,   \* GrowLock::mutex poison flag
  pc,         \* writer: "idle" "waiting" "guard" "written" "extending" "unwinding"
  op,         \* writer: the guard method in progress
  plen,       \* writer: `len` local of push / try_push
  ext,        \* writer: what is left of the iterator handed to extend
  xcall,      \* writer: its extend call in progress, <<length at the call,
              \* sequence handed in>>, or <<>>; a history kept by SpecExtend
  gpoison,    \* writer: its guard came inside a PoisonError
  ret,        \* writer: what its last call returned: "none" (nothing yet, or ()),
              \* "Ok" "Poisoned" "WouldBlock" "Full" "panic"
  rpc,        \* reader: "idle" "sliced"
  rlen,       \* reader: the length its last len() returned
  rres,       \* reader: the last slot read, <<index, value>>, or <<>>
  rfail,      \* reader: its last access out of bounds, <<index, "panic">> for
              \* Index, <<index, "None">> for get, or <<>>
  hb,         \* thread -> events that happen-before its next step: i >= 0 the
              \* write of slot i, -j < 0 the store of length j
  lenView,    \* length value -> what its store released
  mutexView,  \* what the last unlock released
  pushed,     \* values stored in the buffer, in the order of the calls
  issued,     \* number of element values created so far
  unwound,    \* some guard was dropped by a panicking thread
  size,       \* size_of::<T>()
  align,      \* align_of::<T>()
  addOnDrop,  \* T's destructor is observable (AddOnDrop / AddZST of the tests)
  allocOk,    \* the allocator grants what it is asked for
  allocs,     \* the layouts Allocator::allocate was called with, in order
  deallocs,   \* the layouts Allocator::deallocate was called with, in order
  result,     \* what the constructor returned: <<>> before the call, <<"Ok">>,
              \* <<"CapacityOverflow">> or <<"AllocError", layout>>
  life,       \* the container: "unbuilt" "live" "dropped" "failed"
  dtor,       \* slot -> how many times drop_in_place ran on it
  created,    \* number of observable element values constructed so far
  destroyed,  \* the observable element values whose destructor ran, in order
  ptr,        \* buf.ptr: Dangling, or the block the allocator returned
  parts       \* what holds the buffer when no container does: <<>>, or the
              \* <<ptr, len, capacity>> of the raw parts or of the Vec

vars == <<zst, requested, cap, len, buf, locked, poisoned, pc, op, plen, ext,
          xcall, gpoison, ret, rpc, rlen, rres, rfail, hb, lenView, mutexView, pushed, issued,
          unwound, size, align, addOnDrop, allocOk, allocs, deallocs, result,
          life, dtor, created, destroyed, ptr, parts>>

\* what is fixed from the constructor's return to the container's drop
container == <<zst, requested, cap, size, align, addOnDrop, allocOk, allocs,
               deallocs, result, life, dtor, ptr, parts>>
\* the bookkeeping of the observable destructors
drops == <<created, destroyed>>
writerLocals == <<op, plen, ext, xcall, gpoison>>
readerVars == <<rpc, rlen, rres, rfail>>

\* ------------------------------------------------------------------- cap.rs
\* Cap::new_unchecked::<T>(cap)
\* variant: every capacity is stored as Cap::ZERO
CapNewUncheckedZero(isZst, c) == 0
CapNewUnchecked(isZst, c) == IF isZst THEN 0 ELSE c

\* Cap::new::<T>(cap): Some(Cap) as <<cap>>, None as <<>>
CapNew(isZst, c) ==
  IF isZst THEN <<0>>
  ELSE IF c >= 0 /\ c < I_MAX THEN <<CapNewUnchecked(isZst, c)>>
  ELSE <<>>

\* ------------------------------------------------------------------- raw.rs
\* Layout::array::<T>(n): Ok(layout) as <<layout>>, Err as <<>>; a layout is
\* <<size in bytes, alignment>>
LayoutArray(sz, al, n) ==
  IF n * sz <= I_MAX - (al - 1) THEN <<(<<n * sz, al>>)>> ELSE <<>>

\* NonNull::dangling(): the pointer of a buffer that owns no allocation
Dangling == 0

\* the block Allocator::allocate returns on its k-th call
Block(k) == k

\* the pointer of the buffer whose constructor asked the allocator for `asked`
\* after `before` earlier calls: block.cast::<u8>(), or dangling
RawPtr(before, asked) ==
  IF asked = <<>> THEN Dangling ELSE Block(Len(before) + Len(asked))

\* RawGrowLock::try_with_capacity_in(cap, alloc): what it returns and the
\* layouts it hands to the allocator
RawTryWithCapacityIn(sz, al, c, grants) ==
  IF c = 0
    THEN [res |-> <<"Ok">>, asked |-> <<>>]
  ELSE IF LayoutArray(sz, al, c) = <<>>
    THEN [res |-> <<"CapacityOverflow">>, asked |-> <<>>]
  ELSE IF ~grants
    THEN [res |-> <<"AllocError", LayoutArray(sz, al, c)[1]>>,
          asked |-> LayoutArray(sz, al, c)]
  ELSE [res |-> <<"Ok">>, asked |-> LayoutArray(sz, al, c)]

\* GrowLock::try_with_capacity_in(capacity, alloc): what it returns and the
\* layouts it hands to the allocator
TryNew(isZst, sz, al, capacity, grants) ==
  IF CapNew(isZst, capacity) = <<>>
    THEN [res |-> <<"CapacityOverflow">>, asked |-> <<>>]
    ELSE RawTryWithCapacityIn(sz, al, CapNew(isZst, capacity)[1], grants)

\* RawGrowLock::capacity
\* variant: the stored capacity is returned for every element type
RawCapacityStored(isZst, c) == c
\* variant: the capacity reported is the room that is left
RawCapacityRemaining(isZst, c) == IF isZst THEN UsizeMax ELSE c - len
RawCapacity(isZst, c) == IF isZst THEN UsizeMax ELSE c

\* GrowLock::capacity / GrowGuard::capacity
Capacity == RawCapacity(zst, cap)

Slots == 0..(Capacity - 1)

ElemValues == IF zst THEN {1} ELSE Values

\* the k-th element value the callers create
Fresh(k) == IF zst THEN 1 ELSE k

\* n more observable element values are constructed by the caller
Made(count, n) == IF addOnDrop THEN count + n ELSE count

\* the destructor runs on each value of s, in order
Dropped(log, s) == IF addOnDrop THEN log \o s ELSE log

\* ------------------------------------------------------------ memory orders
\* variant: the length loaded with Ordering::Relaxed
LenOrderingRelaxed == "Relaxed"
GrowLockLenOrdering == "Acquire"    \* GrowLock::len
GuardLenOrdering == "Relaxed"       \* GrowGuard::len and the load of try_push
PushStoreOrdering == "Release"      \* the length store of push / try_push

\* what a load of length value j adds to thread t's happens-before
LoadView(t, j, ordering) ==
  IF ordering = "Acquire" THEN hb[t] \cup lenView[j] ELSE hb[t]

\* what a store by thread t releases, given the slots t is ordered after
StoreView(after, ordering) ==
  IF ordering = "Release" THEN after ELSE {}

\* GrowLock::as_slice()[i] / Index: the value thread t reads from slot i
SlotReads(t, i) ==
  IF i \in hb[t] THEN {buf[i]} ELSE ElemValues \cup {Uninit}

\* ---------------------------------------------------------------- construction
\* GrowLock::try_with_capacity_in / with_capacity_in, returning a container
\* the buffer RawGrowLock::try_with_capacity_in returns: no slot written
NoneWritten(isZst, c) == [i \in 0..(RawCapacity(isZst, c) - 1) |-> Uninit]

\* AtomicUsize::new(0): no length stored yet
NoneStored(isZst, c) == [j \in 0..RawCapacity(isZst, c) |-> {}]

\* no destructor has run on any slot
NoneDropped(isZst, c) == [i \in 0..(RawCapacity(isZst, c) - 1) |-> 0]

\* no thread has called anything yet
NothingCalled ==
  /\ pc = [w \in Writers |-> "idle"]
  /\ op = [w \in Writers |-> "none"]
  /\ plen = [w \in Writers |-> 0]
  /\ ext = [w \in Writers |-> <<>>]
  /\ xcall = [w \in Writers |-> <<>>]
  /\ gpoison = [w \in Writers |-> FALSE]
  /\ ret = [w \in Writers |-> "none"]
  /\ rpc = [r \in Readers |-> "idle"]
  /\ rlen = [r \in Readers |-> 0]
  /\ rres = [r \in Readers |-> <<>>]
  /\ rfail = [r \in Readers |-> <<>>]
  /\ hb = [t \in Threads |-> {}]
  /\ mutexView = {}
  /\ pushed = <<>>
  /\ issued = 0
  /\ unwound = FALSE
  /\ created = 0
  /\ destroyed = <<>>

\* the constructor returned a container for the element type and the
\* capacity chosen, and no thread has called anything on it yet
Constructed ==
  /\ CapNew(zst, requested) # <<>>
  /\ cap = CapNew(zst, requested)[1]
  /\ len = 0
  /\ buf = NoneWritten(zst, cap)
  /\ locked = FALSE
  /\ poisoned = FALSE
  /\ lenView = NoneStored(zst, cap)
  /\ result = TryNew(zst, size, align, requested, allocOk).res
  /\ result = <<"Ok">>
  /\ allocs = TryNew(zst, size, align, requested, allocOk).asked
  /\ ptr = RawPtr(<<>>, allocs)
  /\ parts = <<>>
  /\ deallocs = <<>>
  /\ life = "live"
  /\ dtor = NoneDropped(zst, cap)
  /\ NothingCalled

\* a container of u8-sized or zero-sized elements without observable
\* destructor, every requested capacity up to MaxReq
Init ==
  /\ zst \in BOOLEAN
  /\ requested \in 0..MaxReq
  /\ size = (IF zst THEN 0 ELSE 1)
  /\ align = 1
  /\ addOnDrop = FALSE
  /\ allocOk = TRUE
  /\ Constructed

\* ------------------------------------------------------------ std::sync::Mutex
\* Mutex::try_lock: the mutex is taken only when nobody holds it
\* variant: the lock state is not consulted
TryLockAlways(isLocked) == TRUE
TryLockAcquires(isLocked) == ~isLocked

\* the match of write / try_write on the lock result: a poisoned mutex hands
\* its guard out inside a PoisonError
\* variant: the poison flag is ignored
LockResultOk(isPoisoned) == "Ok"
LockResult(isPoisoned) == IF isPoisoned THEN "Poisoned" ELSE "Ok"

\* MutexGuard::drop: the flag is set when the holder is panicking
\* variant: every drop of a guard sets the flag
PoisonOnDropAlways(isPoisoned, panicking) == TRUE
\* variant: no drop of a guard sets the flag
PoisonOnDropNever(isPoisoned, panicking) == isPoisoned
PoisonOnDrop(isPoisoned, panicking) == isPoisoned \/ panicking

\* the greatest length whose store happens-before thread t
LenSeen(t) ==
  LET seen == {j \in 1..Capacity : (0 - j) \in hb[t]}
  IN IF seen = {} THEN 0 ELSE CHOOSE j \in seen : \A k \in seen : k <= j

Max(a, b) == IF a >= b THEN a ELSE b

\* the values a load of the length by thread t may return (coherence)
LenLoads(t, floor) == Max(floor, LenSeen(t))..len

\* both arms of the match that take the mutex wrap its MutexGuard in a
\* GrowGuard: Ok(GrowGuard::new(..)) and PoisonError::new(GrowGuard::new(..))
\* variant: the poisoned arm drops the MutexGuard instead of wrapping it
HandsOutGuardOkOnly(res) == res = "Ok"
HandsOutGuard(res) == res \in {"Ok", "Poisoned"}

\* the mutex is free: thread w takes it and gets what write / try_write return
Acquire(w) ==
  /\ locked' = HandsOutGuard(LockResult(poisoned))
  /\ hb' = [hb EXCEPT ![w] = @ \cup mutexView]
  /\ pc' = [pc EXCEPT ![w] =
              IF HandsOutGuard(LockResult(poisoned)) THEN "guard" ELSE "idle"]
  /\ gpoison' = [gpoison EXCEPT ![w] =
                   poisoned /\ HandsOutGuard(LockResult(poisoned))]
  /\ ret' = [ret EXCEPT ![w] = LockResult(poisoned)]
  /\ UNCHANGED <<container, len, buf, poisoned, op, plen, ext, xcall, readerVars,
                 lenView, mutexView, pushed, issued, unwound, drops>>

\* drop of the GrowGuard (its MutexGuard field): unlock, poisoning if panicking
Release(w, panicking, nextpc) ==
  /\ locked' = FALSE
  /\ poisoned' = PoisonOnDrop(poisoned, panicking)
  /\ mutexView' = hb[w]
  /\ pc' = [pc EXCEPT ![w] = nextpc]
  /\ gpoison' = [gpoison EXCEPT ![w] = FALSE]
  /\ ext' = [ext EXCEPT ![w] = <<>>]
  /\ xcall' = [xcall EXCEPT ![w] = <<>>]
  /\ unwound' = (unwound \/ panicking)

\* ------------------------------------------------------------------- lib.rs
\* GrowLock::write, called with the mutex free or held
Write(w) ==
  /\ pc[w] = "idle"
  /\ IF TryLockAcquires(locked)
       THEN Acquire(w)
       ELSE /\ pc' = [pc EXCEPT ![w] = "waiting"]
            /\ UNCHANGED <<container, len, buf, locked, poisoned, writerLocals,
                           ret, readerVars, hb, lenView, mutexView, pushed,
                           issued, unwound, drops>>

\* variant: a blocked thread does not wake on a poisoned mutex
WriteWakeUnpoisoned(w) ==
  /\ pc[w] = "waiting"
  /\ ~poisoned
  /\ TryLockAcquires(locked)
  /\ Acquire(w)

\* GrowLock::write, blocked in Mutex::lock until the holder unlocks
WriteWake(w) ==
  /\ pc[w] = "waiting"
  /\ TryLockAcquires(locked)
  /\ Acquire(w)

\* variant: try_write calling Mutex::lock
TryWriteBlocking(w) == Write(w)

\* GrowLock::try_write, by a thread without a guard or by the guard's holder
TryWrite(w) ==
  /\ pc[w] \in {"idle", "guard"}
  /\ IF TryLockAcquires(locked)
       THEN Acquire(w)
       ELSE /\ ret' = [ret EXCEPT ![w] = "WouldBlock"]
            /\ UNCHANGED <<container, len, buf, locked, poisoned, pc,
                           writerLocals, readerVars, hb, lenView, mutexView,
                           pushed, issued, unwound, drops>>

\* GrowLock::len, is_empty, is_full, capacity, as_slice and Index touch the
\* atomic length and the buffer only, never GrowLock::mutex
\* variant: a read first takes the writer mutex
ReadGoesAheadUnlocked(isLocked) == ~isLocked
ReadGoesAhead(isLocked) == TRUE

\* GrowLock::len / GrowLock::as_slice: the acquire load and the slice over it
\* (is_empty and is_full compare the same load with 0 and capacity())
AsSlice(r) ==
  /\ rpc[r] = "idle"
  /\ ReadGoesAhead(locked)
  /\ \E j \in LenLoads(r, rlen[r]) :
       /\ rlen' = [rlen EXCEPT ![r] = j]
       /\ hb' = [hb EXCEPT ![r] = LoadView(r, j, GrowLockLenOrdering)]
  /\ rpc' = [rpc EXCEPT ![r] = "sliced"]
  /\ rres' = [rres EXCEPT ![r] = <<>>]
  /\ rfail' = [rfail EXCEPT ![r] = <<>>]
  /\ UNCHANGED <<container, len, buf, locked, poisoned, pc, writerLocals, ret,
                 lenView, mutexView, pushed, issued, unwound, drops>>

\* the bounds check of the slice: index i against the length l of the slice
\* variant: the check lets the index equal to the length through
InBoundsOffByOne(i, l) == i <= l
InBounds(i, l) == i < l

\* Index / get on the slice as_slice returned
ReadSlot(r, i) ==
  /\ rpc[r] = "sliced"
  /\ ReadGoesAhead(locked)
  /\ InBounds(i, rlen[r])
  /\ \E v \in SlotReads(r, i) : rres' = [rres EXCEPT ![r] = <<i, v>>]
  /\ rpc' = [rpc EXCEPT ![r] = "idle"]
  /\ UNCHANGED <<container, len, buf, locked, poisoned, pc, writerLocals, ret,
                 rlen, rfail, hb, lenView, mutexView, pushed, issued, unwound,
                 drops>>

\* Index (how = "panic") or get (how = "None") on the slice as_slice
\* returned, with an index the bounds check refuses; the reader holds no
\* guard, so its panic poisons nothing
OutOfBounds(r, i, how) ==
  /\ rpc[r] = "sliced"
  /\ ReadGoesAhead(locked)
  /\ ~InBounds(i, rlen[r])
  /\ rfail' = [rfail EXCEPT ![r] = <<i, how>>]
  /\ rpc' = [rpc EXCEPT ![r] = "idle"]
  /\ UNCHANGED <<container, len, buf, locked, poisoned, pc, writerLocals, ret,
                 rlen, rres, hb, lenView, mutexView, pushed, issued, unwound,
                 drops>>

\* the slice goes out of scope unread
SliceDone(r) ==
  /\ rpc[r] = "sliced"
  /\ rpc' = [rpc EXCEPT ![r] = "idle"]
  /\ UNCHANGED <<container, len, buf, locked, poisoned, pc, writerLocals, ret,
                 rlen, rres, rfail, hb, lenView, mutexView, pushed, issued,
                 unwound, drops>>

\* GrowGuard::as_slice / Deref, or GrowLock::as_slice called by the thread
\* that holds the guard: the same acquire load; the holder is ordered after
\* every store, so the load changes nothing it knows
GuardAsSlice(w) ==
  /\ pc[w] = "guard"
  /\ ReadGoesAhead(locked)
  /\ \E j \in LenLoads(w, 0) :
       hb' = [hb EXCEPT ![w] = LoadView(w, j, GrowLockLenOrdering)]
  /\ UNCHANGED <<container, len, buf, locked, poisoned, pc, writerLocals, ret,
                 readerVars, lenView, mutexView, pushed, issued, unwound, drops>>

\* ------------------------------------------------------------------ guard.rs
\* GrowGuard::len and the load of try_push: what the relaxed load may return
\* variant: the load is ordered after no store and may return any older length
GuardLenStale(w) == 0..len
GuardLen(w) == LenLoads(w, 0)

\* self.lock.as_non_null_ref().add(len): the slot written
\* variant: the offset is lost and every write lands in slot 0
SlotIndexZero(l) == 0
\* variant: the write lands one slot below the length
SlotIndexBelow(l) == IF l > 0 THEN l - 1 ELSE l
SlotIndex(l) == l

\* len + 1: the length stored
\* variant: the length advances by two
NextLenSkip(l) == l + 2
NextLen(l) == l + 1

\* assert!(len < cap, "length overflow") of push
\* variant: assert!(len <= cap)
PushFitsOffByOne(l, c) == l <= c
PushFits(l, c) == l < c

\* if len >= cap { return Err(LengthError) } of try_push
\* variant: if len > cap
TryPushFullOffByOne(l, c) == l > c
TryPushFull(l, c) == l >= c

\* dst.write(value) by the body of push / try_push, with `len` loaded as l
SlotWrite(w, l, v, o) ==
  /\ buf' = [buf EXCEPT ![SlotIndex(l)] = v]
  /\ hb' = [hb EXCEPT ![w] = LoadView(w, l, GuardLenOrdering) \cup {SlotIndex(l)}]
  /\ plen' = [plen EXCEPT ![w] = l]
  /\ op' = [op EXCEPT ![w] = o]
  /\ pc' = [pc EXCEPT ![w] = "written"]
  /\ pushed' = Append(pushed, v)
  /\ UNCHANGED <<container, len, locked, poisoned, xcall, gpoison, ret,
                 readerVars, lenView, mutexView, unwound, destroyed>>

\* assert!(len < cap, "length overflow") failing: unwinding out of push drops
\* the value
PushPanic(w, v, o) ==
  /\ pc' = [pc EXCEPT ![w] = "unwinding"]
  /\ op' = [op EXCEPT ![w] = o]
  /\ ret' = [ret EXCEPT ![w] = "panic"]
  /\ destroyed' = Dropped(destroyed, <<v>>)
  /\ UNCHANGED <<container, len, buf, locked, poisoned, plen, xcall, gpoison,
                 readerVars, hb, lenView, mutexView, pushed, unwound>>

\* variant: push without its assert
PushBodyUnchecked(w, v, o) ==
  \E l \in GuardLen(w) : SlotWrite(w, l, v, o)

\* GrowGuard::push up to its slot write
PushBody(w, v, o) ==
  \E l \in GuardLen(w) :
    LET c == Capacity
    IN IF PushFits(l, c) THEN SlotWrite(w, l, v, o) ELSE PushPanic(w, v, o)

Push(w, v) ==
  /\ pc[w] = "guard"
  /\ PushBody(w, v, "push")
  /\ issued' = IF pc'[w] = "written" THEN issued + 1 ELSE issued
  /\ created' = Made(created, 1)
  /\ UNCHANGED ext

\* GrowGuard::try_push up to its slot write
TryPush(w, v) ==
  /\ pc[w] = "guard"
  /\ \E l \in GuardLen(w) :
     LET c == Capacity
     IN IF TryPushFull(l, c)
          THEN /\ ret' = [ret EXCEPT ![w] = "Full"]
               /\ created' = Made(created, 1)
               /\ destroyed' = Dropped(destroyed, <<v>>)
               /\ UNCHANGED <<container, len, buf, locked, poisoned, pc,
                              writerLocals, readerVars, hb, lenView, mutexView,
                              pushed, issued, unwound>>
          ELSE /\ SlotWrite(w, l, v, "try_push")
               /\ issued' = issued + 1
               /\ created' = Made(created, 1)
               /\ UNCHANGED ext

\* self.lock.len.store(len + 1, Ordering::Release) of push / try_push
PushStore(w) ==
  /\ pc[w] = "written"
  /\ len' = NextLen(plen[w])
  /\ hb' = [hb EXCEPT ![w] = @ \cup {0 - NextLen(plen[w])}]
  /\ lenView' = [lenView EXCEPT ![NextLen(plen[w])] =
                   StoreView(hb'[w], PushStoreOrdering)]
  /\ pc' = [pc EXCEPT ![w] = IF op[w] = "extend" THEN "extending" ELSE "guard"]
  /\ ret' = [ret EXCEPT ![w] = IF op[w] = "try_push" THEN "Ok" ELSE @]
  /\ plen' = [plen EXCEPT ![w] = 0]
  /\ op' = [op EXCEPT ![w] = IF @ = "extend" THEN @ ELSE "none"]
  /\ UNCHANGED <<container, buf, locked, poisoned, ext, xcall, gpoison, readerVars,
                 mutexView, pushed, issued, unwound, drops>>

\* the n element values created next, in order
FreshSeq(n) == [k \in 1..n |-> Fresh(issued + k)]

\* iter.into_iter(): the elements of the sequence, first to last
\* variant: the sequence is walked from its end
IntoIterRev(s) == [k \in 1..Len(s) |-> s[Len(s) + 1 - k]]
IntoIter(s) == s

\* variant: extend looks at the room first and panics before it appends
\* anything when the sequence does not fit
ExtendAllOrNothing(w, s) ==
  /\ pc[w] = "guard"
  /\ pc' = [pc EXCEPT ![w] =
              IF Len(s) > Capacity - len THEN "unwinding" ELSE "extending"]
  /\ ret' = [ret EXCEPT ![w] = IF Len(s) > Capacity - len THEN "panic" ELSE @]
  /\ ext' = [ext EXCEPT ![w] = IntoIter(s)]
  /\ op' = [op EXCEPT ![w] = "extend"]
  /\ issued' = issued + Len(s)
  /\ created' = Made(created, Len(s))
  /\ UNCHANGED <<container, len, buf, locked, poisoned, plen, gpoison,
                 readerVars, hb, lenView, mutexView, pushed, unwound, destroyed>>

\* Extend::extend: iter.into_iter().  Whether the call is recorded in xcall
\* is left to the specification that takes the step.
Extend(w, s) ==
  /\ pc[w] = "guard"
  /\ pc' = [pc EXCEPT ![w] = "extending"]
  /\ ext' = [ext EXCEPT ![w] = IntoIter(s)]
  /\ op' = [op EXCEPT ![w] = "extend"]
  /\ issued' = issued + Len(s)
  /\ created' = Made(created, Len(s))
  /\ UNCHANGED <<container, len, buf, locked, poisoned, plen, gpoison, ret,
                 readerVars, hb, lenView, mutexView, pushed, unwound, destroyed>>

\* Extend::extend: one turn of `for elem in iter { self.push(elem) }`
ExtendNext(w) ==
  /\ pc[w] = "extending"
  /\ IF ext[w] = <<>>
       THEN /\ pc' = [pc EXCEPT ![w] = "guard"]
            /\ op' = [op EXCEPT ![w] = "none"]
            /\ xcall' = [xcall EXCEPT ![w] = <<>>]
            /\ UNCHANGED <<container, len, buf, locked, poisoned, plen, ext,
                           gpoison, ret, readerVars, hb, lenView, mutexView,
                           pushed, issued, unwound, drops>>
       ELSE /\ PushBody(w, Head(ext[w]), "extend")
            /\ ext' = [ext EXCEPT ![w] = Tail(@)]
            /\ UNCHANGED <<issued, created>>

\* the guard goes out of scope
DropGuard(w) ==
  /\ pc[w] = "guard"
  /\ Release(w, FALSE, "idle")
  /\ ret' = [ret EXCEPT ![w] = "none"]
  /\ UNCHANGED <<container, len, buf, op, plen, readerVars, hb, lenView,
                 pushed, issued, drops>>

\* the code of the guard's holder panics between two calls on the guard
Panic(w) ==
  /\ pc[w] \in {"guard", "extending"}
  /\ pc' = [pc EXCEPT ![w] = "unwinding"]
  /\ ret' = [ret EXCEPT ![w] = "panic"]
  /\ UNCHANGED <<container, len, buf, locked, poisoned, writerLocals,
                 readerVars, hb, lenView, mutexView, pushed, issued, unwound, drops>>

\* unwinding drops what is left of the iterator handed to extend, then the
\* guard; the panic then ends the thread or is caught outside the guard's scope
\* (catch_unwind, a joining thread)
Unwind(w) ==
  /\ pc[w] = "unwinding"
  /\ Release(w, TRUE, "idle")
  /\ op' = [op EXCEPT ![w] = "none"]
  /\ destroyed' = Dropped(destroyed, ext[w])
  /\ UNCHANGED <<container, len, buf, plen, ret, readerVars, hb, lenView,
                 pushed, issued, created>>

\* a run creates at most MaxPush element values; the value handed to a call
\* on a full container is dropped unstored and is not counted
Budget(n) == issued + n <= MaxPush

Next ==
  \/ \E w \in Writers : Write(w)
  \/ \E w \in Writers : WriteWake(w)
  \/ \E w \in Writers : TryWrite(w)
  \/ \E w \in Writers : (Budget(1) \/ len = Capacity) /\ Push(w, Fresh(issued + 1))
  \/ \E w \in Writers : (Budget(1) \/ len = Capacity) /\ TryPush(w, Fresh(issued + 1))
  \/ \E w \in Writers : PushStore(w)
  \/ \E w \in Writers, n \in 0..MaxExt :
       Budget(n) /\ Extend(w, FreshSeq(n)) /\ UNCHANGED xcall
  \/ \E w \in Writers : ExtendNext(w)
  \/ \E w \in Writers : DropGuard(w)
  \/ \E w \in Writers : Panic(w)
  \/ \E w \in Writers : Unwind(w)
  \/ \E r \in Readers : AsSlice(r)
  \/ \E r \in Readers, i \in Slots : ReadSlot(r, i)
  \/ \E r \in Readers : SliceDone(r)
  \/ \E w \in Writers : GuardAsSlice(w)

Spec == Init /\ [][Next]_vars

\* ----------------------------------------------- writers, scheduled fairly
\* Threads that only write: write(), push, drop of the guard, panics.
NextLive ==
  \/ \E w \in Writers : Write(w)
  \/ \E w \in Writers : WriteWake(w)
  \/ \E w \in Writers : (Budget(1) \/ len = Capacity) /\ Push(w, Fresh(issued + 1))
  \/ \E w \in Writers : PushStore(w)
  \/ \E w \in Writers : DropGuard(w)
  \/ \E w \in Writers : Panic(w)
  \/ \E w \in Writers : Unwind(w)

\* The operating system runs every thread that can run: a push in progress
\* stores its length, an unwinding thread drops its guard, a thread blocked in
\* Mutex::lock takes a mutex that stays free.  Every holder eventually lets its
\* guard go out of scope.  Nothing makes the mutex pass to the thread that
\* has waited longest: std::sync::Mutex promises no order among contenders.
FairLive ==
  \A w \in Writers :
    /\ WF_vars(PushStore(w))
    /\ WF_vars(Unwind(w))
    /\ WF_vars(DropGuard(w))
    /\ WF_vars(WriteWake(w))

SpecLive == Init /\ [][NextLive]_vars /\ FairLive

\* ------------------------------------------------- tests.rs: write_contention
\* Every writer thread runs `for i in 0..k { let mut guard = lock.write()
\* .unwrap(); guard.push(t * k + i); }` on a container with room for all.
WriterNo(w) == IF w = "w1" THEN 0 ELSE 1

\* t * (CAP / THREADS) + i, moved up by one to stay apart from Uninit
LoopValue(w, i) == WriterNo(w) * MaxCycles + i + 1

\* the iterations of its loop whose push thread w has made
Pushes(w) ==
  Cardinality({k \in 1..Len(pushed) :
                 \E i \in 0..(MaxCycles - 1) : pushed[k] = LoopValue(w, i)})

\* thread w has pushed through the guard it holds: it is ordered after a slot
\* write that no unlock has published yet
PushedThisHold(w) == ~(hb[w] \subseteq mutexView)

InitContention ==
  /\ zst = FALSE
  /\ requested \in (Cardinality(Writers) * MaxCycles)..(I_MAX - 1)
  /\ size = 1
  /\ align = 1
  /\ addOnDrop = FALSE
  /\ allocOk = TRUE
  /\ Constructed

NextContention ==
  \/ \E w \in Writers : Pushes(w) < MaxCycles /\ Write(w)
  \/ \E w \in Writers : WriteWake(w)
  \/ \E w \in Writers :
       ~PushedThisHold(w) /\ Push(w, LoopValue(w, Pushes(w)))
  \/ \E w \in Writers : PushStore(w)
  \/ \E w \in Writers : PushedThisHold(w) /\ DropGuard(w)

SpecContention == InitContention /\ [][NextContention]_vars

\* --------------------------------------------- one owner, from new to drop
\* The thread that owns the container calls the fallible constructor, writes
\* through guards and drops the container (tests.rs: initialized_drop,
\* init_drop_on_panic, zst_drop, new_empty_*).

\* <<size_of, align_of>> of the element types: (), u8, u16, [u8; 3], u32
ElemTypes == {<<0, 1>>, <<1, 1>>, <<2, 2>>, <<3, 1>>, <<4, 4>>}

Owner == "w1"

\* GrowLock::try_with_capacity_in(requested, alloc), called by the owner
TryWithCapacityIn ==
  /\ life = "unbuilt"
  /\ LET new == TryNew(zst, size, align, requested, allocOk)
     IN /\ result' = new.res
        /\ allocs' = allocs \o new.asked
        /\ IF new.res = <<"Ok">>
             THEN /\ life' = "live"
                  /\ ptr' = RawPtr(allocs, new.asked)
                  /\ cap' = CapNew(zst, requested)[1]
                  /\ buf' = NoneWritten(zst, cap')
                  /\ lenView' = NoneStored(zst, cap')
                  /\ dtor' = NoneDropped(zst, cap')
             ELSE /\ life' = "failed"
                  /\ UNCHANGED <<cap, buf, lenView, dtor, ptr>>
  /\ len' = 0
  /\ locked' = FALSE
  /\ poisoned' = FALSE
  /\ UNCHANGED <<zst, requested, size, align, addOnDrop, allocOk, deallocs, pc,
                 writerLocals, ret, readerVars, hb, mutexView, pushed, issued,
                 unwound, drops, parts>>

\* Drop for GrowLock: `if self.capacity() == 0 { return; }`
\* variant: the stored capacity is tested, which is 0 for a zero-sized type
DropSkipsRawCap(isZst, c) == c = 0
\* variant: no Drop for GrowLock, the elements are forgotten
DropSkipsAlways(isZst, c) == TRUE
DropSkips(isZst, c) == RawCapacity(isZst, c) = 0

\* Drop for GrowLock: the length of the slice handed to drop_in_place
\* variant: the whole capacity is dropped
DropLenCapacity(l, c) == c
DropLen(l, c) == l

\* RawGrowLock::memory_layout: Some((ptr, layout)) as <<layout>>, None as <<>>
\* variant: the size of the layout counts elements, not bytes
MemoryLayoutElems(sz, al, c) == IF c = 0 THEN <<>> ELSE <<(<<c, al>>)>>
MemoryLayout(sz, al, c) == IF c = 0 THEN <<>> ELSE <<(<<sz * c, al>>)>>

\* Drop for GrowLock, then Drop for RawGrowLock.  The owner has the container
\* by value: no guard and no slice borrows it, and its load of the length is
\* ordered after every store.
DropGrowLock ==
  /\ life = "live"
  /\ \A w \in Writers : pc[w] = "idle"
  /\ \A r \in Readers : rpc[r] = "idle"
  /\ LET n == IF DropSkips(zst, cap) THEN 0 ELSE DropLen(len, Capacity)
     IN /\ dtor' = [i \in DOMAIN dtor |-> IF i < n THEN dtor[i] + 1 ELSE dtor[i]]
        /\ destroyed' = Dropped(destroyed, [k \in 1..n |-> buf[k - 1]])
  /\ deallocs' = deallocs \o MemoryLayout(size, align, cap)
  /\ life' = "dropped"
  /\ UNCHANGED <<zst, requested, cap, size, align, addOnDrop, allocOk, allocs,
                 result, len, buf, locked, poisoned, pc, writerLocals, ret,
                 readerVars, hb, lenView, mutexView, pushed, issued, unwound,
                 created, ptr, parts>>

\* the value the owner constructs k-th from now
NewValue(k) == IF zst THEN 1 ELSE created + k

\* the owner stops handing values in once MaxReject were destroyed unstored
MayReject == Len(destroyed) < MaxReject

InitLife ==
  /\ \E ty \in ElemTypes : size = ty[1] /\ align = ty[2]
  /\ zst = (size = 0)
  /\ requested \in 0..UsizeMax
  /\ allocOk \in BOOLEAN
  /\ addOnDrop = TRUE
  /\ life = "unbuilt"
  /\ result = <<>>
  /\ allocs = <<>>
  /\ deallocs = <<>>
  /\ ptr = Dangling
  /\ parts = <<>>
  /\ cap = 0
  /\ len = 0
  /\ buf = <<>>
  /\ dtor = <<>>
  /\ lenView = <<>>
  /\ locked = FALSE
  /\ poisoned = FALSE
  /\ NothingCalled

NextLife ==
  \/ TryWithCapacityIn
  \/ life = "live" /\ Write(Owner)
  \/ (MayReject \/ len < Capacity) /\ Push(Owner, NewValue(1))
  \/ (MayReject \/ len < Capacity) /\ TryPush(Owner, NewValue(1))
  \/ PushStore(Owner)
  \/ \E n \in 0..MaxExt :
       /\ MayReject
       /\ Extend(Owner, [k \in 1..n |-> NewValue(k)])
       /\ UNCHANGED xcall
  \/ ExtendNext(Owner)
  \/ DropGuard(Owner)
  \/ Panic(Owner)
  \/ Unwind(Owner)
  \/ DropGrowLock

SpecLife == InitLife /\ [][NextLife]_vars

\* -------------------------------------------------- tests.rs: slow_write
\* One thread writes while another indexes the container, within and beyond
\* the length it loads.
Indices == 0..Capacity

NextIndex ==
  \/ Write(Owner)
  \/ Budget(1) /\ Push(Owner, Fresh(issued + 1))
  \/ PushStore(Owner)
  \/ \E n \in 0..MaxExt :
       Budget(n) /\ Extend(Owner, FreshSeq(n)) /\ UNCHANGED xcall
  \/ ExtendNext(Owner)
  \/ DropGuard(Owner)
  \/ \E r \in Readers : AsSlice(r)
  \/ \E r \in Readers, i \in Indices : ReadSlot(r, i)
  \/ \E r \in Readers, i \in Indices : OutOfBounds(r, i, "panic")
  \/ \E r \in Readers, i \in Indices : OutOfBounds(r, i, "None")
  \/ \E r \in Readers : SliceDone(r)

SpecIndex == Init /\ [][NextIndex]_vars

\* ------------------------------------------------- extend, call by call
\* Writers push and extend; each extend call is recorded until it returns
\* or its panic has unwound.  The iterators handed in yield their elements
\* without panicking.
ExtendCall(w, s) ==
  /\ Extend(w, s)
  /\ xcall' = [xcall EXCEPT ![w] = <<len, s>>]

NextExtend ==
  \/ \E w \in Writers : Write(w)
  \/ \E w \in Writers : WriteWake(w)
  \/ \E w \in Writers : (Budget(1) \/ len = Capacity) /\ Push(w, Fresh(issued + 1))
  \/ \E w \in Writers : PushStore(w)
  \/ \E w \in Writers, n \in 0..MaxExt : Budget(n) /\ ExtendCall(w, FreshSeq(n))
  \/ \E w \in Writers : ExtendNext(w)
  \/ \E w \in Writers : DropGuard(w)
  \/ \E w \in Writers : Unwind(w)

SpecExtend == Init /\ [][NextExtend]_vars

\* --------------------------------------- the constructors and the first lock
\* GrowLock::with_capacity_in(capacity, alloc): the fail-fast constructor
\* panics with the CapacityOverflow message or calls handle_alloc_error where
\* try_with_capacity_in returns the error
WithNew(isZst, sz, al, capacity, grants) ==
  LET try == TryNew(isZst, sz, al, capacity, grants)
  IN [res |-> IF try.res = <<"Ok">> THEN try.res
              ELSE IF try.res[1] = "CapacityOverflow"
                THEN <<"panic", "CapacityOverflow">>
              ELSE <<"handle_alloc_error", try.res[2]>>,
      asked |-> try.asked]

\* GrowLock::with_capacity_in(requested, alloc), called by the owner; with
\* capacity 0 it is Default::default, with the Global allocator with_capacity
WithCapacityIn ==
  /\ life = "unbuilt"
  /\ LET new == WithNew(zst, size, align, requested, allocOk)
     IN /\ result' = new.res
        /\ allocs' = allocs \o new.asked
        /\ IF new.res = <<"Ok">>
             THEN /\ life' = "live"
                  /\ ptr' = RawPtr(allocs, new.asked)
                  /\ cap' = CapNew(zst, requested)[1]
                  /\ buf' = NoneWritten(zst, cap')
                  /\ lenView' = NoneStored(zst, cap')
                  /\ dtor' = NoneDropped(zst, cap')
             ELSE /\ life' = "failed"
                  /\ UNCHANGED <<cap, buf, lenView, dtor, ptr>>
  /\ len' = 0
  /\ locked' = FALSE
  /\ poisoned' = FALSE
  /\ UNCHANGED <<zst, requested, size, align, addOnDrop, allocOk, deallocs, pc,
                 writerLocals, ret, readerVars, hb, mutexView, pushed, issued,
                 unwound, drops, parts>>

\* the owner builds the container with either constructor, then locks it,
\* pushes, unlocks and panics as it likes
NextNew ==
  \/ TryWithCapacityIn
  \/ WithCapacityIn
  \/ life = "live" /\ Write(Owner)
  \/ life = "live" /\ TryWrite(Owner)
  \/ (MayReject \/ len < Capacity) /\ Push(Owner, NewValue(1))
  \/ PushStore(Owner)
  \/ DropGuard(Owner)
  \/ Panic(Owner)
  \/ Unwind(Owner)

SpecNew == InitLife /\ [][NextNew]_vars

\* ------------------------------------------- raw parts and conversion to Vec
\* The owner may also take the container apart, rebuild it, and convert it to
\* and from a Vec<T, A> (tests.rs: from_vec).  `parts` is what the caller or
\* the Vec holds meanwhile; the fields of the consumed container are left as
\* they were (ManuallyDrop) and are not read again.

\* Vec::capacity of a Vec built by Vec::from_parts_in(ptr, len, c, alloc)
VecCapacity(isZst, c) == IF isZst THEN UsizeMax ELSE c

\* into_parts_with_alloc: (this.as_non_null(), this.len(), this.capacity())
IntoParts(p, l, isZst, c) == <<p, l, RawCapacity(isZst, c)>>

\* from_parts_in: AtomicUsize::new(len)
\* variant: the rebuilt container starts empty
FromPartsLenZero(l) == 0
FromPartsLen(l) == l

\* from_parts_in: Mutex::new(()), whatever the mutex of the consumed
\* container was
\* variant: the poison flag is carried over
NewMutexPoisonedKept(wasPoisoned) == wasPoisoned
NewMutexPoisoned(wasPoisoned) == FALSE

\* GrowLock::from_parts_in(p[1], p[2], p[3], alloc).  The owner is ordered
\* after the initial value of the new length counter.
FromPartsInBody(p) ==
  /\ ptr' = p[1]
  /\ cap' = CapNewUnchecked(zst, p[3])
  /\ len' = FromPartsLen(p[2])
  /\ lenView' = NoneStored(zst, cap')
  /\ hb' = [hb EXCEPT ![Owner] = @ \cup {0 - j : j \in 1..len'}]
  /\ locked' = FALSE
  /\ poisoned' = NewMutexPoisoned(poisoned)
  /\ life' = "live"
  /\ parts' = <<>>
  /\ UNCHANGED <<zst, requested, size, align, addOnDrop, allocOk, allocs,
                 deallocs, result, dtor, buf, pc, writerLocals, ret, readerVars,
                 mutexView, pushed, issued, unwound, drops>>

\* the container is consumed without running its destructor: nothing borrows
\* it, and what the caller gets is `held`
Consume(held, nextlife) ==
  /\ life = "live"
  /\ \A w \in Writers : pc[w] = "idle"
  /\ \A r \in Readers : rpc[r] = "idle"
  /\ parts' = held
  /\ life' = nextlife
  /\ UNCHANGED <<zst, requested, cap, size, align, addOnDrop, allocOk, allocs,
                 deallocs, result, dtor, ptr, len, buf, locked, poisoned, pc,
                 writerLocals, ret, readerVars, hb, lenView, mutexView, pushed,
                 issued, unwound, drops>>

\* GrowLock::into_parts_with_alloc (into_raw_parts_with_alloc, into_parts and
\* into_raw_parts return the same pointer, length and capacity)
IntoPartsWithAlloc == Consume(IntoParts(ptr, len, zst, cap), "parts")

\* GrowLock::from_parts_in, handed the parts of the consumed container
FromPartsIn ==
  /\ life = "parts"
  /\ FromPartsInBody(parts)

\* From<GrowLock<T, A>> for Vec<T, A>: the Vec built from the parts, as
\* <<Vec::as_ptr, Vec::len, Vec::capacity>>
VecFrom ==
  LET p == IntoParts(ptr, len, zst, cap)
  IN Consume(<<p[1], p[2], VecCapacity(zst, p[3])>>, "vec")

\* From<Vec<T, A>> for GrowLock<T, A>: value.into_parts_with_alloc(), then
\* from_parts_in
GrowLockFrom ==
  /\ life = "vec"
  /\ FromPartsInBody(parts)

\* the n values of a Vec made by the caller, then the spare capacity
VecSlots(n, c) ==
  [i \in 0..(c - 1) |-> IF i < n THEN NewValue(i + 1) ELSE Uninit]

\* what a Vec of capacity c asks the allocator for
VecAsks(c) == IF zst \/ c = 0 THEN <<>> ELSE LayoutArray(size, align, c)

\* the caller makes a Vec of capacity `requested` in the same allocator and
\* pushes n values to it
VecNew(n) ==
  /\ life = "unbuilt"
  /\ allocOk
  /\ zst \/ LayoutArray(size, align, requested) # <<>>
  /\ n <= VecCapacity(zst, requested)
  /\ allocs' = allocs \o VecAsks(requested)
  /\ parts' = <<RawPtr(allocs, VecAsks(requested)), n,
                VecCapacity(zst, requested)>>
  /\ buf' = VecSlots(n, VecCapacity(zst, requested))
  /\ dtor' = [i \in 0..(VecCapacity(zst, requested) - 1) |-> 0]
  /\ pushed' = [k \in 1..n |-> NewValue(k)]
  /\ issued' = issued + n
  /\ created' = Made(created, n)
  /\ hb' = [hb EXCEPT ![Owner] = @ \cup (0..(n - 1))]
  /\ life' = "vec"
  /\ UNCHANGED <<zst, requested, cap, size, align, addOnDrop, allocOk,
                 deallocs, result, ptr, len, locked, poisoned, pc, writerLocals,
                 ret, readerVars, lenView, mutexView, unwound, destroyed>>

NextParts ==
  \/ TryWithCapacityIn
  \/ life = "live" /\ Write(Owner)
  \/ (MayReject \/ len < Capacity) /\ Push(Owner, NewValue(1))
  \/ PushStore(Owner)
  \/ DropGuard(Owner)
  \/ Panic(Owner)
  \/ Unwind(Owner)
  \/ DropGrowLock
  \/ \E n \in 0..MaxExt : VecNew(n)
  \/ IntoPartsWithAlloc
  \/ FromPartsIn
  \/ VecFrom
  \/ GrowLockFrom

\* every element type, requested capacities up to MaxReq
InitParts == InitLife /\ requested <= MaxReq

SpecParts == InitParts /\ [][NextParts]_vars

\* ================================================================== claims

\* thread w owns a live write guard
Holding(w) == pc[w] \in {"guard", "written", "extending", "unwinding"}

\* no push is between its slot write and its length store
Quiescent == \A w \in Writers : pc[w] # "written"

\* thread w takes the free mutex in this step
Acquires(w) == ~locked /\ (Write(w) \/ WriteWake(w) \/ TryWrite(w))

\* C1 (as stated): after k accepted pushes on a container constructed with
\* capacity c, len() = k, capacity() = c and slot i holds the i-th pushed value.
C1_AsStated ==
  Quiescent =>
    /\ len = Len(pushed)
    /\ Capacity = requested
    /\ \A i \in 0..(len - 1) : buf[i] = pushed[i + 1]

\* C1 (amended): after k accepted pushes on a container constructed with
\* capacity c, len() = k and slot i holds the i-th pushed value; capacity() = c
\* for a sized element type and usize::MAX for a zero-sized one.
C1_PushOrder ==
  Quiescent =>
    /\ len = Len(pushed)
    /\ Capacity = (IF zst THEN UsizeMax ELSE requested)
    /\ \A i \in 0..(len - 1) : buf[i] = pushed[i + 1]

C1_Witness ==
  /\ ~zst
  /\ Quiescent
  /\ requested = 3
  /\ len = 2
  /\ \E w \in Writers : pc[w] = "guard"

\* C2: in every reachable state 0 <= length <= capacity().
C2_LenWithinCapacity == 0 <= len /\ len <= Capacity

C2_Witness ==
  /\ len = Capacity
  /\ len >= 2
  /\ poisoned
  /\ \E w \in Writers : pc[w] = "extending"

\* C3: in every reachable state, also between a push's slot write and its
\* length store and after a holder panicked, the written slots are exactly the
\* slots below length, plus the one slot a push in progress has just written.
C3_PrefixWritten ==
  \A i \in Slots :
    (buf[i] # Uninit) <=>
      (i < len \/ \E w \in Writers : pc[w] = "written" /\ i = plen[w])

C3_Witness ==
  /\ unwound
  /\ len >= 1
  /\ \E w \in Writers : pc[w] = "written" /\ plen[w] = len

\* C4: whatever slot a reader reads below the length it loaded holds the value
\* that was pushed at that index, never an unwritten or a torn one.
C4_ReadersSeePushed ==
  \A r \in Readers :
    rres[r] # <<>> =>
      /\ rres[r][1] < Len(pushed)
      /\ rres[r][2] # Uninit
      /\ rres[r][2] = pushed[rres[r][1] + 1]

C4_Witness ==
  /\ ~zst
  /\ \E r \in Readers :
       /\ rres[r] # <<>>
       /\ rres[r][1] = 1
       /\ rlen[r] < len

\* C5: at most one write guard is live at any time, a guard handed out inside
\* a poisoned result included.
C5_OneGuard == Cardinality({w \in Writers : Holding(w)}) <= 1

C5_Witness ==
  \E w \in Writers, o \in Writers :
    /\ w # o
    /\ Holding(w)
    /\ gpoison[w]
    /\ pc[o] = "waiting"

\* C6: try_push on a full container returns Full and changes neither length
\* nor elements; on a container with room it writes the slot at length and
\* then returns Ok with length increased by exactly 1.
C6_TryPush ==
  [][\A w \in Writers :
       /\ TryPush(w, Fresh(issued + 1)) =>
            IF len = Capacity
              THEN ret'[w] = "Full" /\ len' = len /\ buf' = buf
                   /\ pc'[w] = "guard"
              ELSE pc'[w] = "written" /\ len' = len
                   /\ buf' = [buf EXCEPT ![len] = Fresh(issued + 1)]
       /\ (op[w] = "try_push" /\ PushStore(w)) =>
            ret'[w] = "Ok" /\ len' = len + 1 /\ buf' = buf /\ pc'[w] = "guard"
    ]_vars

C6_Witness ==
  \E w \in Writers :
    /\ pc[w] = "guard"
    /\ ret[w] = "Full"
    /\ len = Capacity
    /\ len >= 1

\* C7: push succeeds while length < capacity() and fails with "length
\* overflow" exactly when length = capacity(), that is on the call after
\* capacity() accepted ones, writing no slot and leaving length unchanged.
C7_PushOverflow ==
  /\ [](\A w \in Writers :
          (pc[w] = "unwinding" /\ op[w] = "push") =>
            len = Capacity /\ Len(pushed) = Capacity)
  /\ [][\A w \in Writers :
          Push(w, Fresh(issued + 1)) =>
            IF len < Capacity
              THEN pc'[w] = "written" /\ len' = len
                   /\ buf' = [buf EXCEPT ![len] = Fresh(issued + 1)]
              ELSE pc'[w] = "unwinding" /\ ret'[w] = "panic"
                   /\ len' = len /\ buf' = buf /\ pushed' = pushed
       ]_vars

C7_Witness ==
  \E w \in Writers :
    /\ pc[w] = "unwinding"
    /\ op[w] = "push"
    /\ len = Capacity
    /\ len >= 2

\* C8: once a guard has been dropped by a panicking holder, every write() and
\* every try_write() that takes the mutex reports the poisoned condition.
C8_PoisonSticks ==
  [][\A w \in Writers :
       (unwound /\ Acquires(w)) => (ret'[w] = "Poisoned" /\ gpoison'[w])
    ]_vars

C8_Witness ==
  /\ unwound
  /\ \E w \in Writers : pc[w] = "guard" /\ ret[w] = "Poisoned" /\ len >= 1

\* C9: the guard inside a poisoned result holds the mutex; a push through it
\* writes the slot at length and publishes length + 1 together with every
\* slot below it; dropping it unlocks the mutex.
C9_PoisonedGuardUsable ==
  [][\A w \in Writers :
       /\ (Acquires(w) /\ poisoned) =>
            ret'[w] = "Poisoned" /\ pc'[w] = "guard" /\ locked' /\ gpoison'[w]
       /\ (gpoison[w] /\ len < Capacity
             /\ (Push(w, Fresh(issued + 1)) \/ TryPush(w, Fresh(issued + 1)))) =>
            buf' = [buf EXCEPT ![len] = Fresh(issued + 1)] /\ pc'[w] = "written"
       /\ (gpoison[w] /\ PushStore(w)) =>
            len' = len + 1 /\ (0..len) \subseteq lenView'[len + 1]
       /\ (gpoison[w] /\ DropGuard(w)) => ~locked' /\ pc'[w] = "idle"
    ]_vars

C9_Witness ==
  \E w \in Writers :
    /\ gpoison[w]
    /\ pc[w] = "guard"
    /\ ret[w] = "Ok"
    /\ len >= 1

\* C10: try_write never waits; it returns the guard when the mutex is free
\* and unpoisoned, the poisoned result with a guard when it is free and
\* poisoned, and WouldBlock when it is held, poisoned or not, and then
\* changes nothing of the container or the mutex.
C10_TryWrite ==
  /\ [](\A w \in Writers : pc[w] = "idle" => ENABLED TryWrite(w))
  /\ [][\A w \in Writers :
          TryWrite(w) =>
            /\ pc'[w] # "waiting"
            /\ locked =>
                 /\ ret'[w] = "WouldBlock"
                 /\ UNCHANGED <<len, buf, locked, poisoned, pc, gpoison,
                                lenView, mutexView>>
            /\ (~locked /\ ~poisoned) =>
                 ret'[w] = "Ok" /\ pc'[w] = "guard" /\ locked' /\ ~gpoison'[w]
            /\ (~locked /\ poisoned) =>
                 ret'[w] = "Poisoned" /\ pc'[w] = "guard" /\ locked'
                 /\ gpoison'[w]
       ]_vars

C10_Witness ==
  \E w \in Writers : ret[w] = "WouldBlock" /\ poisoned /\ locked

\* C11: a read never waits on the writer mutex.  Whatever the mutex state
\* (free, held by another thread, held by the reading thread, poisoned), a
\* thread that is not inside another call can load the length and take the
\* slice, and a thread that has a slice can read each of its slots.
C11_ReadsNeverWait ==
  /\ \A r \in Readers :
       /\ rpc[r] = "idle" => ENABLED AsSlice(r)
       /\ rpc[r] = "sliced" =>
            /\ ENABLED SliceDone(r)
            /\ \A i \in 0..(rlen[r] - 1) : ENABLED ReadSlot(r, i)
  /\ \A w \in Writers : pc[w] = "guard" => ENABLED GuardAsSlice(w)

C11_Witness ==
  /\ locked
  /\ poisoned
  /\ \E w \in Writers : pc[w] = "written"
  /\ \E r \in Readers : rres[r] # <<>> /\ rlen[r] >= 2

\* C12: the length changes only by the release store of a push in progress,
\* made by the thread that holds the guard, and then grows by exactly 1; it
\* never decreases, and neither the length a reader loads nor the stores a
\* thread is ordered after (the floor of its next load) ever go back.
C12_LenOnlyGrows ==
  [][/\ len' # len =>
          /\ len' = len + 1
          /\ locked
          /\ \E w \in Writers : Holding(w) /\ pc[w] = "written" /\ PushStore(w)
     /\ \A r \in Readers : rlen'[r] >= rlen[r] /\ rlen'[r] <= len'
     /\ \A t \in Threads : hb[t] \subseteq hb'[t]
    ]_vars

C12_Witness ==
  /\ len = 3
  /\ \E r \in Readers : rlen[r] = 2 /\ rpc[r] = "sliced"
  /\ \E w \in Writers : pc[w] = "guard" /\ gpoison[w]

\* a thread blocked in write() can take the mutex, or the mutex is held by a
\* thread whose next step is enabled
NotStuck(w) ==
  \/ ENABLED WriteWake(w)
  \/ \E o \in Writers \ {w} :
       Holding(o) /\ ENABLED (PushStore(o) \/ DropGuard(o) \/ Unwind(o))

\* C13 (as stated): with every thread scheduled fairly and every holder
\* eventually dropping its guard, a thread blocked in write() eventually holds
\* a guard, and the writers never deadlock.
C13_AsStated ==
  /\ [](\A w \in Writers : pc[w] = "waiting" => NotStuck(w))
  /\ \A w \in Writers : (pc[w] = "waiting") ~> (pc[w] = "guard")

\* C13 (amended): the same, provided the mutex does not keep passing to other
\* threads ahead of the blocked one (a thread that finds the mutex free again
\* and again eventually takes it).
C13_WriterProgress ==
  /\ [](\A w \in Writers : pc[w] = "waiting" => NotStuck(w))
  /\ (\A w \in Writers : SF_vars(WriteWake(w))) =>
       (\A w \in Writers : (pc[w] = "waiting") ~> (pc[w] = "guard"))

C13_Witness ==
  \E w \in Writers, o \in Writers :
    /\ pc[w] = "guard"
    /\ gpoison[w]
    /\ pc[o] = "waiting"
    /\ len >= 1

\* every iteration of every writer's loop is over
LoopsDone == \A w \in Writers : pc[w] = "idle" /\ Pushes(w) = MaxCycles

\* C14: T writers each run k cycles of write() / push one value / drop guard
\* on a container with capacity >= T * k.  In every interleaving no push
\* panics, every value pushed so far sits in exactly one slot and no slot was
\* written twice, and when all loops are over the length is T * k.
C14_Contention ==
  /\ \A w \in Writers : pc[w] # "unwinding" /\ ret[w] # "panic"
  /\ \A k \in 1..Len(pushed) :
       Cardinality({s \in Slots : buf[s] = pushed[k]}) = 1
  /\ Cardinality({s \in Slots : buf[s] # Uninit}) = Len(pushed)
  /\ Quiescent => len = Len(pushed)
  /\ LoopsDone => len = Cardinality(Writers) * MaxCycles

C14_Witness ==
  /\ LoopsDone
  /\ len = Cardinality(Writers) * MaxCycles
  /\ buf[0] = LoopValue("w2", 0)
  /\ buf[1] = LoopValue("w1", 0)
  /\ buf[2] = LoopValue("w2", 1)

\* how many times value v was destroyed
TimesDestroyed(v) ==
  Cardinality({k \in 1..Len(destroyed) : destroyed[k] = v})

\* the values stored in the container, still in the iterator handed to a
\* running extend, and destroyed
StoredValues == {pushed[k] : k \in 1..Len(pushed)}
IterValues == UNION {{ext[w][k] : k \in 1..Len(ext[w])} : w \in Writers}
DestroyedValues == {destroyed[k] : k \in 1..Len(destroyed)}

\* C15: dropping a container of capacity N into which M <= N elements were
\* pushed runs the element destructor once on each of the slots [0, M), on
\* the values pushed there, and on no slot of [M, N).
C15_DropRunsDestructors ==
  life = "dropped" =>
    /\ len = Len(pushed)
    /\ len <= Capacity
    /\ \A i \in Slots : dtor[i] = (IF i < len THEN 1 ELSE 0)
    /\ Len(destroyed) >= len
    /\ \A i \in 0..(len - 1) :
         destroyed[Len(destroyed) - len + i + 1] = pushed[i + 1]

C15_Witness ==
  /\ life = "dropped"
  /\ ~zst
  /\ Capacity = 4
  /\ len = 2
  /\ destroyed = <<1, 2>>

\* C16: no value handed to push or try_push is destroyed twice; while the
\* container lives every value is stored, waiting in a running extend, or
\* (rejected by a full container) destroyed by the call that rejected it, and
\* no stored value is destroyed; once the container is dropped every value
\* has been destroyed exactly once, so c stored values and one rejected one
\* make c + 1 destructor runs.
C16_DestroyedOnce ==
  /\ Uninit \notin DestroyedValues
  /\ ~zst =>
       /\ \A v \in 1..created : TimesDestroyed(v) <= 1
       /\ (1..created) = StoredValues \cup IterValues \cup DestroyedValues
       /\ life = "live" => StoredValues \cap DestroyedValues = {}
       /\ life = "dropped" => \A v \in 1..created : TimesDestroyed(v) = 1
  /\ life = "dropped" => Len(destroyed) = created
  /\ (life = "dropped" /\ created = Capacity + 1 /\ len = Capacity) =>
       Len(destroyed) = Capacity + 1

C16_Witness ==
  /\ life = "dropped"
  /\ unwound
  /\ ~zst
  /\ Capacity = 2
  /\ created = 3
  /\ destroyed = <<3, 1, 2>>

\* C17: for a zero-sized element type the constructor returns a container
\* for every requested capacity, asks the allocator for nothing, stores the
\* capacity 0 and reports capacity() = usize::MAX; a push at any length below
\* usize::MAX writes and then stores length + 1, whatever was requested.
C17_ZeroSized ==
  /\ [](zst /\ life # "unbuilt" =>
          /\ result = <<"Ok">>
          /\ allocs = <<>>
          /\ cap = 0
          /\ Capacity = UsizeMax)
  /\ [][/\ (zst /\ len < UsizeMax
              /\ (Push(Owner, NewValue(1)) \/ TryPush(Owner, NewValue(1)))) =>
            pc'[Owner] = "written" /\ plen'[Owner] = len
       /\ (zst /\ PushStore(Owner)) => len' = len + 1
      ]_vars

C17_Witness ==
  /\ zst
  /\ requested > I_MAX
  /\ len = UsizeMax
  /\ life = "live"

\* C18: for a zero-sized element type with an observable destructor, dropping
\* a container into which n values were pushed runs the destructor n times,
\* once per slot below length(), although the stored capacity is 0 and
\* nothing was allocated or is deallocated.
C18_ZeroSizedDrop ==
  (zst /\ life = "dropped") =>
    /\ cap = 0
    /\ allocs = <<>>
    /\ deallocs = <<>>
    /\ len = Len(pushed)
    /\ \A i \in Slots : dtor[i] = (IF i < len THEN 1 ELSE 0)
    /\ Len(destroyed) = created

C18_Witness ==
  /\ zst
  /\ life = "dropped"
  /\ requested = 2
  /\ len = 3
  /\ Len(destroyed) = 3

\* C19 (as stated): for a sized element type the constructor's capacity
\* validation (Cap::new) fails, and the constructor returns CapacityOverflow
\* without asking the allocator, exactly when the requested capacity exceeds
\* isize::MAX; isize::MAX itself is accepted.
C19_AsStated ==
  (~zst /\ life # "unbuilt") =>
    /\ (CapNew(zst, requested) = <<>>) <=> (requested > I_MAX)
    /\ CapNew(zst, requested) = <<>> =>
         result = <<"CapacityOverflow">> /\ allocs = <<>>

C19_Witness ==
  /\ ~zst
  /\ requested = I_MAX
  /\ CapNew(zst, requested) = <<>>
  /\ life = "failed"
  /\ result = <<"CapacityOverflow">>

\* the bytes of `requested` elements do not fit a Layout of the element's
\* alignment
LayoutExceeds == requested * size > I_MAX - (align - 1)

\* C20 (as stated): the fallible constructor returns CapacityOverflow,
\* without asking the allocator, when requested capacity x element size
\* exceeds the layout limit; AllocError with the layout it asked for when the
\* allocator refuses that layout; and a container in every other case.
C20_AsStated ==
  life # "unbuilt" =>
    IF LayoutExceeds
      THEN result = <<"CapacityOverflow">> /\ allocs = <<>> /\ life = "failed"
    ELSE IF requested * size > 0 /\ ~allocOk
      THEN /\ result = <<"AllocError", <<requested * size, align>>>>
           /\ allocs = <<(<<requested * size, align>>)>>
           /\ life = "failed"
    ELSE result = <<"Ok">> /\ life \in {"live", "dropped"}

C20_Witness ==
  /\ size = 1
  /\ requested = I_MAX
  /\ allocOk
  /\ ~LayoutExceeds
  /\ result = <<"CapacityOverflow">>
  /\ allocs = <<>>


\* a constructor returns the container in this step
Constructs == (TryWithCapacityIn \/ WithCapacityIn) /\ life' = "live"

\* C21: a container returned by try_with_capacity_in or with_capacity_in
\* (with_capacity, try_with_capacity and default call these) has length 0,
\* capacity() equal to the requested capacity unless the element type is
\* zero-sized, and a free, unpoisoned mutex; as long as nothing was called on
\* it, write() and try_write() return Ok with a guard.
C21_FreshContainer ==
  [][/\ Constructs =>
          /\ len' = 0
          /\ ~zst => Capacity' = requested
          /\ ~locked' /\ ~poisoned'
          /\ result' = <<"Ok">>
          /\ NothingCalled'
     /\ (life = "live" /\ NothingCalled /\ (Write(Owner) \/ TryWrite(Owner))) =>
          ret'[Owner] = "Ok" /\ pc'[Owner] = "guard" /\ locked'
          /\ ~gpoison'[Owner] /\ len' = 0
    ]_vars

C21_Witness ==
  /\ ~zst
  /\ size = 2
  /\ requested = 3
  /\ Capacity = 3
  /\ pc[Owner] = "guard"
  /\ ret[Owner] = "Ok"
  /\ pushed = <<>>
  /\ ~unwound


\* a conversion calls neither allocate nor deallocate, runs no destructor
\* and leaves every slot of the buffer as it is
MovesNothing ==
  /\ allocs' = allocs
  /\ deallocs' = deallocs
  /\ dtor' = dtor
  /\ destroyed' = destroyed
  /\ buf' = buf

\* C22: container -> Vec hands the Vec exactly the container's pointer,
\* length and capacity(); Vec -> container gives the container exactly the
\* Vec's pointer, length and capacity.  Neither conversion allocates,
\* deallocates, runs a destructor or touches a slot, so each round trip
\* (container -> Vec -> container, Vec -> container -> Vec) ends with the
\* pointer, length, capacity and elements it started with.
C22_VecRoundTrip ==
  [][/\ VecFrom =>
          /\ parts' = <<ptr, len, Capacity>>
          /\ life' = "vec"
          /\ MovesNothing
     /\ GrowLockFrom =>
          /\ <<ptr', len', Capacity'>> = parts
          /\ life' = "live"
          /\ MovesNothing
    ]_vars

C22_Witness ==
  /\ life = "vec"
  /\ result = <<>>
  /\ unwound
  /\ ~zst
  /\ parts = <<Block(1), 3, 3>>
  /\ pushed = <<1, 2, 3>>


\* C23: an access at index i through Index or get loads the length and
\* checks i against it.  With i below the loaded length it succeeds and
\* returns the value pushed i-th; with i at or above it, it fails (Index
\* panics, get returns None) without reading a slot, also when i is below
\* capacity() and when the slot is already written by a push in progress.
C23_IndexWithinLen ==
  /\ [](\A r \in Readers : \A i \in Indices :
          rpc[r] = "sliced" =>
            /\ (ENABLED ReadSlot(r, i)) <=> (i < rlen[r])
            /\ (ENABLED OutOfBounds(r, i, "panic")) <=> (i >= rlen[r])
            /\ (ENABLED OutOfBounds(r, i, "None")) <=> (i >= rlen[r]))
  /\ [][\A r \in Readers : \A i \in Indices :
          /\ ReadSlot(r, i) =>
               i < rlen[r] /\ rres'[r] = <<i, pushed[i + 1]>> /\ rfail'[r] = <<>>
          /\ (OutOfBounds(r, i, "panic") \/ OutOfBounds(r, i, "None")) =>
               i >= rlen[r] /\ rres'[r] = <<>> /\ ~poisoned'
       ]_vars

C23_Witness ==
  \E r \in Readers :
    /\ ~zst
    /\ rfail[r] = <<1, "None">>
    /\ rlen[r] = 1
    /\ len = 2
    /\ Capacity = 3


\* C24: from the constructor's return on, no step of any thread (write,
\* try_write, push, try_push, extend, drop of a guard, panic and unwinding of
\* a writer, reads) changes capacity(), the stored capacity or the buffer's
\* pointer, or calls allocate or deallocate.
C24_CapacityFixed ==
  [][/\ Capacity' = Capacity
     /\ cap' = cap
     /\ ptr' = ptr
     /\ allocs' = allocs
     /\ deallocs' = deallocs
    ]_vars

C24_Witness ==
  /\ ~zst
  /\ Capacity = 3
  /\ ptr = Block(1)
  /\ allocs = <<(<<3, 1>>)>>
  /\ len = Capacity
  /\ unwound
  /\ \E w \in Writers : ret[w] = "WouldBlock"
  /\ \E w \in Writers : pc[w] = "unwinding" /\ op[w] = "extend"


\* the extend call of thread w in progress: the length when it was called,
\* the sequence handed in, and the room there was
XLen(w) == xcall[w][1]
XSeq(w) == xcall[w][2]
XRoom(w) == Capacity - XLen(w)

\* the first k elements of the sequence sit in the slots from XLen(w) on
XAppended(w, k) ==
  \A i \in 1..k : buf[XLen(w) + i - 1] = XSeq(w)[i]

\* C25: extend with a sequence of n elements pushes them one by one, first to
\* last.  While it runs, the elements taken so far sit in consecutive slots
\* from the old length on, in sequence order, and the rest is still in the
\* iterator.  It returns only when n <= capacity() - len(), and then all n
\* are appended in order and the length has grown by n; it panics only when
\* n > capacity() - len(), on a full container.
C25_ExtendAsPushes ==
  /\ [](\A w \in Writers :
          xcall[w] # <<>> =>
            /\ pc[w] \in {"extending", "written", "unwinding"}
            /\ op[w] = "extend"
            /\ len >= XLen(w)
            /\ XAppended(w, len - XLen(w))
            /\ pc[w] = "extending" =>
                 /\ ENABLED ExtendNext(w)
                 /\ ext[w] = SubSeq(XSeq(w), len - XLen(w) + 1, Len(XSeq(w)))
            /\ pc[w] = "unwinding" =>
                 Len(XSeq(w)) > XRoom(w) /\ len = Capacity)
  /\ [][\A w \in Writers :
          (ExtendNext(w) /\ pc'[w] = "guard") =>
            /\ Len(XSeq(w)) <= XRoom(w)
            /\ len = XLen(w) + Len(XSeq(w))
            /\ XAppended(w, Len(XSeq(w)))
            /\ len' = len /\ buf' = buf /\ ret'[w] # "panic"
       ]_vars

C25_Witness ==
  \E w \in Writers :
    /\ ~zst
    /\ Capacity = 2
    /\ pc[w] = "unwinding"
    /\ xcall[w] = <<1, <<2, 3>>>>
    /\ buf[1] = 2
    /\ len = 2


\* C26: a slot below the length never changes again.  Every step that
\* changes the buffer, whichever thread and call (push, try_push, extend)
\* makes it, writes exactly the slot at the current length, which held no
\* value before, and leaves the slots below the length as they are.
C26_PublishedSlotsFrozen ==
  [][/\ \A i \in Slots : i < len => buf'[i] = buf[i]
     /\ buf' # buf =>
          /\ len < Capacity
          /\ buf[len] = Uninit
          /\ \E v \in ElemValues : buf' = [buf EXCEPT ![len] = v]
    ]_vars

C26_Witness ==
  /\ ~zst
  /\ len = 2
  /\ unwound
  /\ \E w \in Writers :
       pc[w] = "written" /\ plen[w] = 2 /\ gpoison[w] /\ op[w] = "try_push"
  /\ \E w \in Writers : pc[w] = "waiting"


\* C27: deallocate is called at most once.  It is called exactly when a
\* container whose stored capacity is not Cap::ZERO is dropped, and then with
\* the layout (size and alignment) that was passed to the one successful
\* allocate, for the block that call returned.  Dropping a container with
\* stored capacity Cap::ZERO (capacity 0, zero-sized elements) calls it not at
\* all, and neither does a container consumed by into_parts_with_alloc or
\* by the conversion to Vec, nor a constructor that failed.
C27_DeallocOnce ==
  /\ Len(deallocs) <= 1
  /\ life # "dropped" => deallocs = <<>>
  /\ life = "dropped" =>
       IF cap = 0
         THEN deallocs = <<>> /\ ptr = Dangling
         ELSE /\ Len(allocs) = 1
              /\ deallocs = allocs
              /\ deallocs[1] = <<size * cap, align>>
              /\ ptr = Block(1)
  /\ (life = "dropped" /\ (zst \/ Capacity = 0)) => cap = 0 /\ deallocs = <<>>

C27_Witness ==
  /\ life = "dropped"
  /\ result = <<>>
  /\ unwound
  /\ size = 2
  /\ cap = 3
  /\ len = 3
  /\ deallocs = <<(<<6, 2>>)>>


\* the length changes only by a store of the guard's holder, and that store
\* releases every slot write the holder is ordered after
HolderStoresRelease ==
  len' # len =>
    \E w \in Writers :
      /\ Holding(w)
      /\ PushStore(w)
      /\ (0..(len' - 1)) \subseteq lenView'[len']

\* a load through GrowLock::len / as_slice orders the thread after what the
\* store it reads released
OutsideLoadsAcquire ==
  \A r \in Readers : AsSlice(r) => lenView[rlen'[r]] \subseteq hb'[r]

\* C28 (as stated): the length is stored only by the guard's holder, with
\* Release, and every load of it is an Acquire load, those of GrowGuard::len,
\* push and try_push included.
C28_AsStated ==
  /\ \A w \in Writers : pc[w] = "written" => PushStoreOrdering = "Release"
  /\ \A r \in Readers : rpc[r] = "sliced" => GrowLockLenOrdering = "Acquire"
  /\ \A w \in Writers :
       pc[w] = "written" /\ op[w] \in {"push", "try_push", "extend"} =>
         GuardLenOrdering = "Acquire"

\* C28 (amended): the length is stored only by the guard's holder, with
\* Release; the loads of GrowLock::len and as_slice are Acquire loads.  The
\* loads the holder makes in GrowGuard::len, push and try_push are Relaxed
\* loads; holding the mutex orders the holder after every earlier store, so
\* they return the current length all the same.
C28_LenOrderings ==
  /\ [](/\ \A w \in Writers : pc[w] = "written" => PushStoreOrdering = "Release"
        /\ \A r \in Readers : rpc[r] = "sliced" => GrowLockLenOrdering = "Acquire"
        /\ \A w \in Writers :
             pc[w] = "written" /\ op[w] \in {"push", "try_push", "extend"} =>
               GuardLenOrdering = "Relaxed"
        /\ \A w \in Writers : pc[w] = "guard" => GuardLen(w) = {len})
  /\ [][HolderStoresRelease /\ OutsideLoadsAcquire]_vars

C28_Witness ==
  /\ len = 2
  /\ unwound
  /\ {0, 1} \subseteq lenView[2]
  /\ \E w \in Writers : pc[w] = "written" /\ plen[w] = 2 /\ gpoison[w]
  /\ \E r \in Readers : rpc[r] = "sliced" /\ rlen[r] = 2


\* C29: a guard dropped by a thread that is not panicking frees the mutex
\* and leaves the poison flag as it was.  As long as no guard was dropped by
\* a panicking thread the mutex is unpoisoned, and every write() and
\* try_write() that takes the mutex returns Ok with a guard, however many
\* times the mutex was taken and released before.
C29_CleanDropKeepsUnpoisoned ==
  /\ [](~unwound => ~poisoned)
  /\ [][\A w \in Writers :
          /\ DropGuard(w) =>
               ~locked' /\ poisoned' = poisoned /\ pc'[w] = "idle"
          /\ (~unwound /\ Acquires(w)) =>
               ret'[w] = "Ok" /\ pc'[w] = "guard" /\ locked' /\ ~gpoison'[w]
       ]_vars

C29_Witness ==
  /\ ~unwound
  /\ len = 3
  /\ mutexView = {0, 1, 0 - 1, 0 - 2}
  /\ \E w \in Writers : pc[w] = "guard" /\ ret[w] = "Ok" /\ 2 \in hb[w]
  /\ \E w \in Writers : pc[w] = "waiting"


\* thread w is unwinding from the "length overflow" panic of a push it
\* called itself (not through extend)
PushOverflowed(w) == pc[w] = "unwinding" /\ op[w] = "push"

\* C30: when a push on a full container panics, the unwinding drops the
\* guard, which frees and poisons the mutex; the length is still capacity()
\* and every slot still holds the value pushed there.  A try_push that
\* returns Full changes neither the poison flag nor the length nor a slot,
\* and the thread still holds its guard: it can call try_push again, read
\* through the guard, or drop it.
C30_OverflowPoisons ==
  /\ [](\A w \in Writers :
          /\ PushOverflowed(w) =>
               /\ locked
               /\ len = Capacity
               /\ \A i \in Slots : buf[i] = pushed[i + 1]
               /\ ENABLED Unwind(w)
          /\ (pc[w] = "guard" /\ ret[w] = "Full") =>
               /\ locked
               /\ ENABLED TryPush(w, Fresh(issued + 1))
               /\ ENABLED GuardAsSlice(w)
               /\ ENABLED DropGuard(w))
  /\ [][\A w \in Writers :
          /\ (PushOverflowed(w) /\ Unwind(w)) =>
               /\ poisoned' /\ ~locked'
               /\ len' = len /\ buf' = buf
          /\ (TryPush(w, Fresh(issued + 1)) /\ pc'[w] = "guard") =>
               /\ ret'[w] = "Full"
               /\ poisoned' = poisoned /\ locked'
               /\ len' = len /\ buf' = buf
       ]_vars

C30_Witness ==
  /\ ~zst
  /\ poisoned
  /\ len = Capacity
  /\ len = 2
  /\ \E w \in Writers : PushOverflowed(w) /\ gpoison[w]


\* thread w is unwinding from the "length overflow" panic of a push made by
\* its extend call
ExtendOverflowed(w) == pc[w] = "unwinding" /\ op[w] = "extend"

\* C31: extend is not atomic.  A call whose sequence is longer than the room
\* left fails only in the push of the first element that does not fit: by
\* then the length stored is capacity() and the slots from the old length on
\* hold the first capacity() - old_length elements of the sequence, in order.
\* The push that panics is the one of the first element that does not fit,
\* the elements after it are still in the iterator; unwinding changes neither
\* the length nor a slot, so after the panic the length is capacity() and the
\* slots filled by the call still hold those elements.
C31_ExtendNotAtomic ==
  /\ [](\A w \in Writers :
          ExtendOverflowed(w) =>
            /\ xcall[w] # <<>>
            /\ Len(XSeq(w)) > XRoom(w)
            /\ len = Capacity
            /\ 0 - Capacity \in hb[w] \/ XRoom(w) = 0
            /\ XAppended(w, XRoom(w))
            /\ ext[w] = SubSeq(XSeq(w), XRoom(w) + 2, Len(XSeq(w)))
            /\ ret[w] = "panic"
            /\ ENABLED Unwind(w))
  /\ [][\A w \in Writers :
          /\ (ExtendNext(w) /\ pc'[w] = "unwinding") =>
               /\ len = Capacity /\ len' = len /\ buf' = buf
               /\ Head(ext[w]) = XSeq(w)[XRoom(w) + 1]
          /\ (ExtendOverflowed(w) /\ Unwind(w)) =>
               /\ len' = Capacity
               /\ \A i \in 1..XRoom(w) : buf'[XLen(w) + i - 1] = XSeq(w)[i]
               /\ buf' = buf
               /\ poisoned' /\ ~locked'
       ]_vars

C31_Witness ==
  \E w \in Writers :
    /\ ~zst
    /\ Capacity = 1
    /\ ExtendOverflowed(w)
    /\ xcall[w] = <<0, <<1, 2>>>>
    /\ len = 1
    /\ buf[0] = 1
    /\ ext[w] = <<>>
    /\ locked /\ ~poisoned


\* the owner rebuilds a container from the parts, or from the Vec, that a
\* poisoned container was taken apart into
RebuildsPoisoned == poisoned /\ (FromPartsIn \/ GrowLockFrom)

\* C32: taking a poisoned container apart (into parts or into a Vec) needs
\* no lock and keeps its pointer, length and capacity(); the container
\* rebuilt from them has a new mutex, unlocked and unpoisoned, and the
\* pointer, length, capacity and slots of the original.  A write() on a live
\* container whose mutex is unpoisoned returns Ok with a guard, so the first
\* write() on the rebuilt container does.
C32_RebuildClearsPoison ==
  /\ [][/\ (poisoned /\ (IntoPartsWithAlloc \/ VecFrom)) =>
             /\ parts' = <<ptr, len, Capacity>>
             /\ MovesNothing
        /\ RebuildsPoisoned =>
             /\ life' = "live"
             /\ ~poisoned' /\ ~locked'
             /\ <<ptr', len', Capacity'>> = <<ptr, len, Capacity>>
             /\ <<ptr', len', Capacity'>> = parts
             /\ \A i \in 0..(len' - 1) : buf'[i] = pushed[i + 1]
             /\ MovesNothing
        /\ (life = "live" /\ ~poisoned /\ Write(Owner)) =>
             /\ ret'[Owner] = "Ok"
             /\ pc'[Owner] = "guard"
             /\ locked' /\ ~gpoison'[Owner]
       ]_vars
  /\ []((life = "live" /\ pc[Owner] = "idle") => ENABLED Write(Owner))

\* the mutex of the first container was poisoned by a panic; the owner holds
\* a guard of the rebuilt one, handed out by a write() that returned Ok
C32_Witness ==
  /\ ~zst
  /\ unwound
  /\ life = "live"
  /\ ~poisoned
  /\ pc[Owner] = "guard" /\ ret[Owner] = "Ok" /\ ~gpoison[Owner]
  /\ Capacity = 3
  /\ len = 2
  /\ buf[0] = pushed[1] /\ buf[1] = pushed[2]

====
